---------------------------- MODULE Spec2Model ----------------------------
(***************************************************************************)
(* A model of ws, the tmux session switcher (src/src/main.rs).             *)
(*                                                                         *)
(* The state is the persisted state file, the tmux server (its live        *)
(* sessions and the session the user's client is attached to) and the      *)
(* clock.  Each command handler (pick, kill, back, refresh) is one action. *)
(* `last` records what the most recent invocation did: the external calls  *)
(* it made, its outcome, and the values it computed on the way.            *)
(*                                                                         *)
(* Conventions: an Option is a sequence of length 0 (None) or 1 (Some);    *)
(* picker indices are zero-based as in the source; session, category and   *)
(* project names are positive integers; a path is the sequence of its      *)
(* components below the file system root of the model.                     *)
(***************************************************************************)
EXTENDS Integers, Sequences, FiniteSets, TLC

VARIABLES
    file,       \* the state file: [kind |-> "missing"], [kind |-> "garbage"] or [kind |-> "json", body |-> JSON value]
    sessions,   \* tmux: the set of live session names
    client,     \* tmux: Option of the session the user's client is attached to
    now,        \* the clock, seconds since the epoch
    steps,      \* number of steps taken so far
    last,       \* the record of the most recent invocation
    arg,        \* the input of a pure function under test
    ret,        \* its result
    pending,    \* Option of the Pick that is blocked in attach-session: what it holds in memory
    scan_at     \* Option of the time of the most recent rescan by a Pick

vars == <<file, sessions, client, now, steps, last, arg, ret, pending, scan_at>>

---------------------------------------------------------------------------
\* Program constants

STATE_VERSION == 1
MAX_HISTORY_SIZE == 10
CACHE_TTL_SECONDS == 3600
PROJECT_SCAN_MIN_DEPTH == 2
PROJECT_SCAN_MAX_DEPTH == 2

---------------------------------------------------------------------------
\* Bounds of the model

\* invocations per behaviour
MaxSteps == 1
\* how many of the most recent history entries are live sessions initially
MaxLive == 3
\* the clock's value in the initial states
StartTime == 100000
\* sessions, projects and raw indices beyond the list of the pure index-resolution inputs
MaxSessions == 3
MaxProjects == 3
MaxOvershoot == 2
\* stamps of the pure cache-validity inputs
MaxStamp == 3
\* entries beyond MAX_HISTORY_SIZE in the history of a hand-written state file
MaxExcess == 2
\* invocations per behaviour of sequential use, and the sessions visited before it
MaxRun == 3
MaxVisited == 2
\* invocations that run to completion while a Pick is blocked in attach-session
MaxInner == 2

\* a name that is in none of the initial histories
NewName == MAX_HISTORY_SIZE + 1
Workspaces == {1, 2}

None == << >>
Some(x) == << x >>

---------------------------------------------------------------------------
\* ProjectInfo, SelectableItem and their display strings

ProjectInfo(path, category, name) ==
    [path |-> path, category |-> category, name |-> name]

display_name(info) == << info.category, "/", info.name >>

Session(name) == [tag |-> "Session", name |-> name]
Project(info) == [tag |-> "Project", info |-> info]

to_display_string(item) ==
    IF item.tag = "Session"
    THEN << "session: ", item.name >>
    ELSE << "project: " >> \o display_name(item.info)

SEPARATOR == << "---" >>

---------------------------------------------------------------------------
\* The file system and scan_projects

\* The entries below workspace w: a path relative to the root and whether it
\* is a directory.  Workspace 1 holds the categories 1 and 2; the leaf name
\* NewName exists under both, and category 1 also holds a file and a
\* directory with a subdirectory.  Workspace 2 holds one empty category.
FsEntries(w) ==
    IF w = 1
    THEN { [path |-> <<1, 1>>, is_dir |-> TRUE],
           [path |-> <<1, 1, 1>>, is_dir |-> TRUE],
           [path |-> <<1, 1, 2>>, is_dir |-> TRUE],
           [path |-> <<1, 1, 2, 5>>, is_dir |-> TRUE],
           [path |-> <<1, 1, NewName>>, is_dir |-> TRUE],
           [path |-> <<1, 1, 3>>, is_dir |-> FALSE],
           [path |-> <<1, 2>>, is_dir |-> TRUE],
           [path |-> <<1, 2, NewName>>, is_dir |-> TRUE] }
    ELSE { [path |-> <<w, 1>>, is_dir |-> TRUE] }

\* depth of an entry below the workspace root
Depth(e) == Len(e.path) - 1

LessProject(a, b) ==
    \/ a.category < b.category
    \/ a.category = b.category /\ a.name < b.name

RECURSIVE SortProjects(_)
SortProjects(S) ==
    IF S = {} THEN << >>
    ELSE LET m == CHOOSE x \in S : \A y \in S \ {x} : ~LessProject(y, x)
         IN << m >> \o SortProjects(S \ {m})

scan_projects(workspace) ==
    LET found == { e \in FsEntries(workspace) :
                      /\ Depth(e) >= PROJECT_SCAN_MIN_DEPTH
                      /\ Depth(e) <= PROJECT_SCAN_MAX_DEPTH
                      /\ e.is_dir }
        projects == { ProjectInfo(e.path, e.path[Len(e.path) - 1], e.path[Len(e.path)]) :
                         e \in found }
    IN SortProjects(projects)

---------------------------------------------------------------------------
\* State: load, save, history, cache

DefaultState ==
    [version |-> STATE_VERSION,
     history |-> << >>,
     cache   |-> [projects |-> << >>, updated_at |-> 0, ttl |-> CACHE_TTL_SECONDS]]

\* serde_json.  A JSON value is [t, v]: its type and its content; an object's
\* content is a function from its keys.  A name and a path of the model stand
\* for Rust strings and are written as JSON strings.
JsonNumber(n) == [t |-> "number", v |-> n]
JsonString(x) == [t |-> "string", v |-> x]
JsonArray(a) == [t |-> "array", v |-> a]
JsonObject(o) == [t |-> "object", v |-> o]

\* #[derive(Serialize)] for ProjectInfo, ProjectCache and State
project_to_json(info) ==
    JsonObject([path |-> JsonString(info.path),
                category |-> JsonString(info.category),
                name |-> JsonString(info.name)])

to_json(state) ==
    JsonObject(
        [version |-> JsonNumber(state.version),
         history |-> JsonArray([i \in 1 .. Len(state.history) |->
                                   JsonString(state.history[i])]),
         cache   |-> JsonObject(
             [projects   |-> JsonArray([i \in 1 .. Len(state.cache.projects) |->
                                           project_to_json(state.cache.projects[i])]),
              updated_at |-> JsonNumber(state.cache.updated_at),
              ttl        |-> JsonNumber(state.cache.ttl)])])

\* #[derive(Deserialize)]: every field of the struct must be there with its
\* type (a u32 is not negative), keys the struct does not have are skipped.
\* The result is an Option.
is_object_with(j, keys) == j.t = "object" /\ keys \subseteq DOMAIN j.v

is_array_of(j, t) == j.t = "array" /\ \A i \in 1 .. Len(j.v) : j.v[i].t = t

is_project_json(j) ==
    /\ is_object_with(j, {"path", "category", "name"})
    /\ \A k \in {"path", "category", "name"} : j.v[k].t = "string"

project_from_json(j) == ProjectInfo(j.v.path.v, j.v.category.v, j.v.name.v)

is_cache_json(j) ==
    /\ is_object_with(j, {"projects", "updated_at", "ttl"})
    /\ j.v.projects.t = "array"
    /\ \A i \in 1 .. Len(j.v.projects.v) : is_project_json(j.v.projects.v[i])
    /\ j.v.updated_at.t = "number"
    /\ j.v.ttl.t = "number"

is_state_json(j) ==
    /\ is_object_with(j, {"version", "history", "cache"})
    /\ j.v.version.t = "number"
    /\ j.v.version.v >= 0
    /\ is_array_of(j.v.history, "string")
    /\ is_cache_json(j.v.cache)

from_json(j) ==
    IF ~is_state_json(j) THEN None
    ELSE Some(
        [version |-> j.v.version.v,
         history |-> [i \in 1 .. Len(j.v.history.v) |-> j.v.history.v[i].v],
         cache   |-> [projects   |-> [i \in 1 .. Len(j.v.cache.v.projects.v) |->
                                         project_from_json(j.v.cache.v.projects.v[i])],
                      updated_at |-> j.v.cache.v.updated_at.v,
                      ttl        |-> j.v.cache.v.ttl.v]])

\* (mutant) a file of another version is not taken
load_checks_version(f) ==
    IF f.kind # "json" \/ from_json(f.body) = None THEN DefaultState
    ELSE IF from_json(f.body)[1].version # STATE_VERSION THEN DefaultState
    ELSE from_json(f.body)[1]

\* The state file is missing, holds text that is no JSON ("garbage"), or holds
\* a JSON value.
load(f) ==
    IF f.kind # "json" THEN DefaultState
    ELSE LET parsed == from_json(f.body)
         IN IF parsed = None THEN DefaultState ELSE parsed[1]

save(state) == [kind |-> "json", body |-> to_json(state)]

\* (mutant) Vec::swap_remove instead of retain: the last entry fills the hole
retain_swap_remove(history, session) ==
    IF \A i \in 1 .. Len(history) : history[i] # session THEN history
    ELSE LET i == CHOOSE k \in 1 .. Len(history) : history[k] = session
             n == Len(history)
         IN IF i = n THEN SubSeq(history, 1, n - 1)
            ELSE [k \in 1 .. (n - 1) |-> IF k = i THEN history[n] ELSE history[k]]

retain(history, session) == SelectSeq(history, LAMBDA s : s # session)

\* (mutant) no truncation after the push
push_history_unbounded(state, session) ==
    [state EXCEPT !.history = Append(retain(state.history, session), session)]

\* (mutant) no removal of the existing occurrence before the push
push_history_no_dedup(state, session) ==
    LET pushed == Append(state.history, session)
    IN [state EXCEPT !.history =
            IF Len(pushed) > MAX_HISTORY_SIZE THEN Tail(pushed) ELSE pushed]

push_history(state, session) ==
    LET kept   == retain(state.history, session)
        pushed == Append(kept, session)
    IN [state EXCEPT !.history =
            IF Len(pushed) > MAX_HISTORY_SIZE THEN Tail(pushed) ELSE pushed]

\* (mutant) the last entry whatever the length
previous_session_last(state) ==
    LET h == state.history
    IN IF Len(h) = 0 THEN None ELSE Some(h[Len(h)])

previous_session(state) ==
    LET h == state.history
    IN IF Len(h) >= 2 THEN Some(h[Len(h) - 1])
       ELSE IF Len(h) = 0 THEN None ELSE Some(h[Len(h)])

\* (mutant) <= for <
cache_valid_inclusive(state, t) == t - state.cache.updated_at <= state.cache.ttl

cache_valid(state, t) == t - state.cache.updated_at < state.cache.ttl

refresh_cache(state, workspace, t) ==
    [state EXCEPT !.cache.projects = scan_projects(workspace),
                  !.cache.updated_at = t]

\* (mutant) a rescan whatever the age of the cache
ensure_cache_valid_always(state, workspace, t) == refresh_cache(state, workspace, t)

ensure_cache_valid(state, workspace, t) ==
    IF ~cache_valid(state, t) THEN refresh_cache(state, workspace, t) ELSE state

---------------------------------------------------------------------------
\* TmuxClient.  A world w is [sessions, client, log]: the server's live
\* sessions, the user's client, and the external calls made so far by the
\* running invocation.  `fault` names the one external call of the invocation
\* whose process cannot be spawned (or, for "save", whose write fails), or is
\* "none".  Every function returns [w, err] and, for a query, val.  A log
\* entry is [call, target, ok]: the call, the session it names (for create,
\* the name and the path) and whether it could be run.

Logged(w, call, target, fault) ==
    [w EXCEPT !.log = Append(@, [call |-> call, target |-> target, ok |-> fault # call])]

RECURSIVE SortNames(_)
SortNames(S) ==
    IF S = {} THEN << >>
    ELSE LET m == CHOOSE x \in S : \A y \in S : x <= y
         IN << m >> \o SortNames(S \ {m})

SessionInfo(name) == [name |-> name, last_active |-> 0]

is_in_tmux(w) == w.client # None

\* `best` is the session tmux resolves the query to when the process has no
\* client of its own (outside tmux): any live session.
current_session(w, best, fault) ==
    LET w1 == Logged(w, "current", None, fault)
    IN IF fault = "current" \/ w.sessions = {}
       THEN [w |-> w1, err |-> TRUE, val |-> None]
       ELSE [w |-> w1, err |-> FALSE,
             val |-> IF w.client # None THEN w.client[1] ELSE best]

\* tmux lists its sessions in name order; with no server the command exits
\* non-zero and the list is empty.
list_sessions(w, fault) ==
    LET w1 == Logged(w, "list", None, fault)
        names == SortNames(w.sessions)
    IN IF fault = "list"
       THEN [w |-> w1, err |-> TRUE, val |-> << >>]
       ELSE [w |-> w1, err |-> FALSE,
             val |-> [i \in 1 .. Len(names) |-> SessionInfo(names[i])]]

\* (mutant) the exit status read the wrong way round
has_session_inverted(w, name, fault) ==
    LET w1 == Logged(w, "has", Some(name), fault)
    IN IF fault = "has"
       THEN [w |-> w1, err |-> TRUE, val |-> FALSE]
       ELSE [w |-> w1, err |-> FALSE, val |-> name \notin w.sessions]

has_session(w, name, fault) ==
    LET w1 == Logged(w, "has", Some(name), fault)
    IN IF fault = "has"
       THEN [w |-> w1, err |-> TRUE, val |-> FALSE]
       ELSE [w |-> w1, err |-> FALSE, val |-> name \in w.sessions]

create_session(w, name, path, fault) ==
    LET w1 == Logged(w, "create", << name, path >>, fault)
    IN IF fault = "create"
       THEN [w |-> w1, err |-> TRUE]
       ELSE [w |-> [w1 EXCEPT !.sessions = @ \cup {name}], err |-> FALSE]

\* switch-client moves the client when there is one and the target is live;
\* otherwise tmux exits non-zero, which the code does not look at.
switch_client(w, name, fault) ==
    LET w1 == Logged(w, "switch", Some(name), fault)
    IN IF fault = "switch"
       THEN [w |-> w1, err |-> TRUE]
       ELSE [w |-> [w1 EXCEPT !.client =
                       IF w.client # None /\ name \in w.sessions THEN Some(name) ELSE @],
             err |-> FALSE]

\* attach-session blocks until the user detaches again, so the client the
\* call creates is gone when it returns.
attach_session(w, name, fault) ==
    LET w1 == Logged(w, "attach", Some(name), fault)
    IN IF fault = "attach"
       THEN [w |-> w1, err |-> TRUE]
       ELSE [w |-> w1, err |-> FALSE]

\* Killing the session the client is attached to leaves the client detached
\* or on another live session (tmux's detach-on-destroy): `after`.
kill_session(w, name, after, fault) ==
    LET w1 == Logged(w, "kill", Some(name), fault)
    IN IF fault = "kill"
       THEN [w |-> w1, err |-> TRUE]
       ELSE [w |-> [w1 EXCEPT !.sessions = @ \ {name},
                              !.client = IF @ = Some(name) THEN after ELSE @],
             err |-> FALSE]

\* (mutant) no look at is_in_tmux
switch_or_attach_always_switch(w, name, fault) == switch_client(w, name, fault)

switch_or_attach(w, name, fault) ==
    IF is_in_tmux(w)
    THEN switch_client(w, name, fault)
    ELSE attach_session(w, name, fault)

---------------------------------------------------------------------------
\* Picker::pick: the user aborts (choice = None) or accepts row choice[1] of
\* items; the result is the position of the first item equal to that row's text.

Picker_pick(items, choice) ==
    IF choice = None THEN None
    ELSE LET selected_text == items[choice[1] + 1]
         IN Some((CHOOSE i \in 1 .. Len(items) :
                     /\ items[i] = selected_text
                     /\ \A j \in 1 .. (i - 1) : items[j] # selected_text) - 1)

---------------------------------------------------------------------------
\* handle_pick_command, in the order of the source: the items, the display
\* list, the resolution of the picked index, the selection.

selectable_items(sess, projects) ==
    [i \in 1 .. Len(sess) |-> Session(sess[i].name)]
        \o [i \in 1 .. Len(projects) |-> Project(projects[i])]

\* (mutant) no look at the project list
separator_offset_without_projects(in_tmux, sess, projects) ==
    IF in_tmux /\ sess # << >> THEN 1 ELSE 0

separator_offset(in_tmux, sess, projects) ==
    IF in_tmux /\ sess # << >> /\ projects # << >> THEN 1 ELSE 0

\* Vec::insert(index, element)
insert(v, index, element) ==
    SubSeq(v, 1, index) \o << element >> \o SubSeq(v, index + 1, Len(v))

display_strings(items, sess, offset) ==
    LET strings == [i \in 1 .. Len(items) |-> to_display_string(items[i])]
    IN IF offset > 0 THEN insert(strings, Len(sess), SEPARATOR) ELSE strings

\* usize subtraction: below zero it panics (debug build) or wraps (release
\* build); None stands for either.
usize_sub(a, b) == IF a >= b THEN Some(a - b) ELSE None

\* (mutant) the separator's slot is not subtracted
adjusted_index_unadjusted(selected_index, nsessions, offset) == Some(selected_index)

adjusted_index(selected_index, nsessions, offset) ==
    IF offset > 0 /\ selected_index >= nsessions
    THEN usize_sub(selected_index, offset)
    ELSE Some(selected_index)

\* (mutant) no clean return on the separator row
resolve_index_no_separator(selected_index, items, nsessions, offset) ==
    LET adjusted == adjusted_index(selected_index, nsessions, offset)
    IN IF adjusted = None THEN [kind |-> "overflow"]
       ELSE IF adjusted[1] >= Len(items) THEN [kind |-> "invalid"]
       ELSE [kind |-> "item", index |-> adjusted[1], item |-> items[adjusted[1] + 1]]

\* What the picked index resolves to: "overflow" when the subtraction went
\* below zero, "separator" for the clean return on the separator row,
\* "invalid" for the Invalid selection error, and else the item.
resolve_index(selected_index, items, nsessions, offset) ==
    LET adjusted == adjusted_index(selected_index, nsessions, offset)
    IN IF adjusted = None THEN [kind |-> "overflow"]
       ELSE IF offset > 0 /\ selected_index = nsessions THEN [kind |-> "separator"]
       ELSE IF adjusted[1] >= Len(items) THEN [kind |-> "invalid"]
       ELSE [kind |-> "item", index |-> adjusted[1], item |-> items[adjusted[1] + 1]]

handle_selection(item, state, w, fault) ==
    IF item.tag = "Session"
    THEN LET pushed == push_history(state, item.name)
             r == switch_or_attach(w, item.name, fault)
         IN [state |-> pushed, w |-> r.w, err |-> r.err]
    ELSE LET session_name == item.info.name
             h == has_session(w, session_name, fault)
             c == IF ~h.val
                  THEN create_session(h.w, session_name, item.info.path, fault)
                  ELSE [w |-> h.w, err |-> FALSE]
             pushed == push_history(state, session_name)
             r == switch_or_attach(c.w, session_name, fault)
         IN IF h.err THEN [state |-> state, w |-> h.w, err |-> TRUE]
            ELSE IF c.err THEN [state |-> state, w |-> c.w, err |-> TRUE]
            ELSE [state |-> pushed, w |-> r.w, err |-> r.err]

\* State::save as the last call of a handler: the file after it, and the world.
Saved(state, w, fault) ==
    [file |-> IF fault = "save" THEN file ELSE save(state),
     w    |-> Logged(w, "save", None, fault),
     err  |-> fault = "save"]

\* The result of an invocation: the file and the world it leaves, its outcome
\* ("ok" or the error), the state it loaded and the state it held in memory
\* at its end, and what it computed on the way.
Return(f, w, outcome, loaded, state, obs) ==
    [file |-> f, w |-> w, outcome |-> outcome, loaded |-> loaded,
     state |-> state, obs |-> obs]

handle_pick_command(workspace, choice, fault) ==
    LET loaded == load(file)
        state == ensure_cache_valid(loaded, workspace, now)
        w0 == [sessions |-> sessions, client |-> client, log |-> << >>]
        in_tmux == is_in_tmux(w0)
        ls == IF in_tmux THEN list_sessions(w0, fault)
              ELSE [w |-> w0, err |-> FALSE, val |-> << >>]
        sess == IF ls.err THEN << >> ELSE ls.val
        items == selectable_items(sess, state.cache.projects)
        offset == separator_offset(in_tmux, sess, state.cache.projects)
        display == display_strings(items, sess, offset)
        picked == Picker_pick(display, choice)
        res == resolve_index(picked[1], items, Len(sess), offset)
        obs == [workspace |-> workspace, in_tmux |-> in_tmux,
                scanned |-> ~cache_valid(loaded, now),
                sessions |-> sess, projects |-> state.cache.projects,
                offset |-> offset, display |-> display, picked |-> picked,
                resolved |-> IF picked = None THEN [kind |-> "aborted"] ELSE res]
        hs == handle_selection(res.item, state, ls.w, fault)
        sv == Saved(hs.state, hs.w, fault)
    IN IF picked = None THEN Return(file, ls.w, "ok", loaded, state, obs)
       ELSE IF res.kind = "overflow" THEN Return(file, ls.w, "panic", loaded, state, obs)
       ELSE IF res.kind = "separator" THEN Return(file, ls.w, "ok", loaded, state, obs)
       ELSE IF res.kind = "invalid"
            THEN Return(file, ls.w, "Invalid selection", loaded, state, obs)
       ELSE IF hs.err THEN Return(file, hs.w, "io error", loaded, hs.state, obs)
       ELSE IF sv.err THEN Return(sv.file, sv.w, "io error", loaded, hs.state, obs)
       ELSE Return(sv.file, sv.w, "ok", loaded, hs.state, obs)

\* The condition of the fallback switch of handle_kill_command.
\* (mutant) no fallback switch at all
kill_switches_never(current, selected, previous) == FALSE

\* (mutant) no comparison of the previous session with the killed one
kill_switches_to_any_previous(current, selected, previous) ==
    /\ current = Some(selected)
    /\ previous # None

kill_switches(current, selected, previous) ==
    /\ current = Some(selected)
    /\ previous # None
    /\ previous[1] # selected

\* handle_kill_command.  `best` and `after` are tmux's choices (see
\* current_session and kill_session).
handle_kill_command(choice, best, after, fault) ==
    LET w0 == [sessions |-> sessions, client |-> client, log |-> << >>]
        ls == list_sessions(w0, fault)
        loaded == load(file)
        cs == current_session(ls.w, best, fault)
        current == IF cs.err THEN None ELSE Some(cs.val)
        session_names == [i \in 1 .. Len(ls.val) |-> ls.val[i].name]
        picked == Picker_pick(session_names, choice)
        selected == session_names[picked[1] + 1]
        previous == previous_session(loaded)
        k == kill_session(cs.w, selected, after, fault)
        sw == IF kill_switches(current, selected, previous) THEN switch_client(k.w, previous[1], fault).w ELSE k.w
        state == [loaded EXCEPT !.history = retain(@, selected)]
        sv == Saved(state, sw, fault)
        obs0 == [sessions |-> session_names, current |-> current, picked |-> picked]
        obs == [sessions |-> session_names, current |-> current, picked |-> picked,
                selected |-> selected, previous |-> previous]
    IN IF ls.err THEN Return(file, ls.w, "io error", DefaultState, DefaultState, [sessions |-> << >>])
       ELSE IF ls.val = << >>
            THEN Return(file, ls.w, "ok", DefaultState, DefaultState, [sessions |-> << >>])
       ELSE IF picked = None THEN Return(file, cs.w, "ok", loaded, loaded, obs0)
       ELSE IF k.err THEN Return(file, k.w, "io error", loaded, loaded, obs)
       ELSE IF sv.err THEN Return(sv.file, sv.w, "io error", loaded, state, obs)
       ELSE Return(sv.file, sv.w, "ok", loaded, state, obs)

handle_back_command(fault) ==
    LET w0 == [sessions |-> sessions, client |-> client, log |-> << >>]
        loaded == load(file)
        previous == previous_session(loaded)
        sw == switch_client(w0, previous[1], fault)
        state == push_history(loaded, previous[1])
        sv == Saved(state, sw.w, fault)
        obs == [previous |-> previous]
    IN IF previous = None THEN Return(file, w0, "ok", loaded, loaded, obs)
       ELSE IF sw.err THEN Return(file, sw.w, "io error", loaded, loaded, obs)
       ELSE IF sv.err THEN Return(sv.file, sv.w, "io error", loaded, state, obs)
       ELSE Return(sv.file, sv.w, "ok", loaded, state, obs)

handle_refresh_command(workspace, fault) ==
    LET w0 == [sessions |-> sessions, client |-> client, log |-> << >>]
        loaded == load(file)
        state == refresh_cache(loaded, workspace, now)
        sv == Saved(state, w0, fault)
        obs == [workspace |-> workspace, scanned |-> TRUE]
    IN IF sv.err THEN Return(sv.file, sv.w, "io error", loaded, state, obs)
       ELSE Return(sv.file, sv.w, "ok", loaded, state, obs)

---------------------------------------------------------------------------
\* The specification of the commands

Faults == {"none", "list", "current", "has", "create", "switch", "attach", "kill", "save"}

\* The states the commands start from: a first run (no state file, no
\* session), or a history of k visited sessions 1 .. k of which the MaxLive
\* most recent are still live, with the cache scanned from workspace 1 at
\* StartTime and either fresh or just expired; the user is inside the most
\* recent session or outside tmux.
InitState(k) ==
    [version |-> STATE_VERSION,
     history |-> [i \in 1 .. k |-> i],
     cache   |-> [projects |-> scan_projects(1), updated_at |-> StartTime,
                  ttl |-> CACHE_TTL_SECONDS]]

Init ==
    \E k \in 0 .. MAX_HISTORY_SIZE, attached \in BOOLEAN, age \in {0, CACHE_TTL_SECONDS} :
        /\ file = IF k = 0 THEN [kind |-> "missing"] ELSE save(InitState(k))
        /\ sessions = { n \in 1 .. k : n > k - MaxLive }
        /\ client = IF attached /\ k > 0 THEN Some(k) ELSE None
        /\ now = StartTime + age
        /\ steps = 0
        /\ last = [cmd |-> "init"]
        /\ pending = None
        /\ scan_at = None
        /\ arg = None
        /\ ret = None

\* r wrote the state file
Wrote(r) == \E i \in DOMAIN r.w.log : r.w.log[i].call = "save" /\ r.w.log[i].ok

\* What a Pick blocked in attach-session holds, p, after another invocation
\* ran to completion meanwhile: p.pushed and p.removed collect the names whose
\* latest update of the persisted history by such an invocation was a push
\* (Pick, Back) or a removal (Kill).
Inner(p, cmd, r) ==
    IF ~Wrote(r) \/ cmd = "refresh" THEN p
    ELSE IF cmd = "kill"
         THEN [p EXCEPT !.pushed = @ \ {r.obs.selected},
                        !.removed = @ \cup {r.obs.selected}]
    ELSE LET name == r.state.history[Len(r.state.history)]
         IN [p EXCEPT !.pushed = @ \cup {name}, !.removed = @ \ {name}]

\* One invocation of a command with result r.  A fault is only drawn for a
\* call the invocation makes.
Invoke(cmd, r, fault) ==
    /\ fault = "none" \/ \E i \in DOMAIN r.w.log : r.w.log[i].call = fault
    /\ file' = r.file
    /\ sessions' = r.w.sessions
    /\ client' = r.w.client
    /\ steps' = steps + 1
    /\ last' = [cmd |-> cmd, fault |-> fault, outcome |-> r.outcome,
                log |-> r.w.log, loaded |-> r.loaded, state |-> r.state,
                obs |-> r.obs,
                before |-> [sessions |-> sessions, client |-> client, now |-> now,
                            cmd |-> last.cmd]]
    /\ scan_at' = IF cmd = "pick" /\ r.obs.scanned THEN Some(now) ELSE scan_at
    /\ pending' = IF pending = None THEN None ELSE Some(Inner(pending[1], cmd, r))
    /\ UNCHANGED <<now, arg, ret>>

Choices(n) == {None} \cup { Some(i) : i \in 0 .. (n - 1) }

Pick ==
    /\ steps < MaxSteps
    /\ \E workspace \in Workspaces, fault \in Faults :
        \E choice \in Choices(Len(handle_pick_command(workspace, None, fault).obs.display)) :
            Invoke("pick", handle_pick_command(workspace, choice, fault), fault)

Kill ==
    /\ steps < MaxSteps
    /\ \E fault \in Faults :
        \E choice \in Choices(IF fault = "list" THEN 0 ELSE Cardinality(sessions)) :
            \E best \in (IF client # None THEN {client[1]}
                         ELSE IF sessions = {} THEN {0} ELSE sessions) :
                \E after \in (IF choice # None /\ client = Some(SortNames(sessions)[choice[1] + 1])
                              THEN {None} \cup { Some(n) : n \in sessions \ {client[1]} }
                              ELSE {None}) :
                    Invoke("kill", handle_kill_command(choice, best, after, fault), fault)

Back ==
    /\ steps < MaxSteps
    /\ \E fault \in Faults :
        Invoke("back", handle_back_command(fault), fault)

Refresh ==
    /\ steps < MaxSteps
    /\ \E workspace \in Workspaces, fault \in Faults :
        Invoke("refresh", handle_refresh_command(workspace, fault), fault)

\* Time passes between invocations.
Tick ==
    /\ steps < MaxSteps
    /\ \E d \in {1, CACHE_TTL_SECONDS - 1, CACHE_TTL_SECONDS} :
        /\ now' = now + d
        /\ steps' = steps + 1
        /\ last' = [cmd |-> "tick"]
        /\ UNCHANGED <<file, sessions, client, arg, ret, pending, scan_at>>

Next == Pick \/ Kill \/ Back \/ Refresh \/ Tick

Spec == Init /\ [][Next]_vars

---------------------------------------------------------------------------
\* Sequential use inside tmux: every invocation runs to completion before the
\* next starts, the user's client is attached, every call to tmux can be run,
\* and a client whose session is killed is moved to another live session.
\* The behaviours start on a first run or after the sessions 1 .. k were
\* picked one after the other.

InitSession ==
    \E k \in 0 .. MaxVisited, age \in {0, CACHE_TTL_SECONDS} :
        /\ file = IF k = 0 THEN [kind |-> "missing"] ELSE save(InitState(k))
        /\ sessions = 1 .. MaxLive
        /\ client = Some(IF k = 0 THEN MaxLive ELSE k)
        /\ now = StartTime + age
        /\ steps = 0
        /\ last = [cmd |-> "init"]
        /\ arg = None
        /\ ret = None
        /\ pending = None
        /\ scan_at = IF k = 0 THEN None ELSE Some(StartTime)

SessionPick ==
    /\ steps < MaxRun
    /\ client # None
    /\ \E workspace \in Workspaces :
        \E choice \in Choices(Len(handle_pick_command(workspace, None, "none").obs.display)) :
            Invoke("pick", handle_pick_command(workspace, choice, "none"), "none")

SessionKill ==
    /\ steps < MaxRun
    /\ client # None
    /\ \E choice \in Choices(Cardinality(sessions)) :
        \E after \in (IF choice # None /\ client = Some(SortNames(sessions)[choice[1] + 1])
                         /\ sessions # {client[1]}
                      THEN { Some(n) : n \in sessions \ {client[1]} }
                      ELSE {None}) :
            Invoke("kill", handle_kill_command(choice, client[1], after, "none"), "none")

SessionBack ==
    /\ steps < MaxRun
    /\ client # None
    /\ Invoke("back", handle_back_command("none"), "none")

SessionRefresh ==
    /\ steps < MaxRun
    /\ client # None
    /\ \E workspace \in Workspaces :
        Invoke("refresh", handle_refresh_command(workspace, "none"), "none")

SessionTick ==
    /\ steps < MaxRun
    /\ \E d \in {1, CACHE_TTL_SECONDS} :
        /\ now' = now + d
        /\ steps' = steps + 1
        /\ last' = [cmd |-> "tick"]
        /\ UNCHANGED <<file, sessions, client, arg, ret, pending, scan_at>>

NextSession == SessionPick \/ SessionKill \/ SessionBack \/ SessionRefresh \/ SessionTick

SpecSession == InitSession /\ [][NextSession]_vars

---------------------------------------------------------------------------
\* A Pick outside tmux, in two steps: all of handle_pick_command up to the
\* attach-session it blocks in (AttachBegin), and the return of that call,
\* when the user detaches or the session is gone, with the save that follows
\* it (AttachEnd).  In between the user works inside the attached session and
\* runs Pick, Kill and Back there, each to completion.

InitAttach ==
    \E k \in 0 .. MaxVisited :
        /\ file = IF k = 0 THEN [kind |-> "missing"] ELSE save(InitState(k))
        /\ sessions = 1 .. MaxLive
        /\ client = None
        /\ now = StartTime
        /\ steps = 0
        /\ last = [cmd |-> "init"]
        /\ arg = None
        /\ ret = None
        /\ pending = None
        /\ scan_at = None

\* r reached its attach-session
Attaches(r) == \E i \in DOMAIN r.w.log : r.w.log[i].call = "attach"

\* The invocation with result r blocks in its attach-session: the calls up to
\* it have been made, the user's terminal is attached to the session, nothing
\* is saved yet.
Block(r) ==
    /\ Attaches(r)
    /\ sessions' = r.w.sessions
    /\ client' = Some(r.state.history[Len(r.state.history)])
    /\ pending' = Some([r |-> r,
                        before |-> [sessions |-> sessions, client |-> client,
                                    now |-> now, cmd |-> last.cmd],
                        pushed |-> {}, removed |-> {}])
    /\ last' = [cmd |-> "attach"]
    /\ scan_at' = IF r.obs.scanned THEN Some(now) ELSE scan_at
    /\ UNCHANGED <<file, now, steps, arg, ret>>

AttachBegin ==
    /\ pending = None
    /\ client = None
    /\ last.cmd = "init"
    /\ \E workspace \in Workspaces :
        \E choice \in Choices(Len(handle_pick_command(workspace, None, "none").obs.display)) :
            Block(handle_pick_command(workspace, choice, "none"))

InnerPick ==
    /\ pending # None
    /\ client # None
    /\ steps < MaxInner
    /\ \E workspace \in Workspaces :
        \E choice \in Choices(Len(handle_pick_command(workspace, None, "none").obs.display)) :
            Invoke("pick", handle_pick_command(workspace, choice, "none"), "none")

InnerKill ==
    /\ pending # None
    /\ client # None
    /\ steps < MaxInner
    /\ \E choice \in Choices(Cardinality(sessions)) :
        \E after \in (IF choice # None /\ client = Some(SortNames(sessions)[choice[1] + 1])
                      THEN {None} \cup { Some(n) : n \in sessions \ {client[1]} }
                      ELSE {None}) :
            Invoke("kill", handle_kill_command(choice, client[1], after, "none"), "none")

InnerBack ==
    /\ pending # None
    /\ client # None
    /\ steps < MaxInner
    /\ Invoke("back", handle_back_command("none"), "none")

AttachEnd ==
    /\ pending # None
    /\ LET p == pending[1]
       IN /\ file' = p.r.file
          /\ client' = None
          /\ pending' = None
          /\ last' = [cmd |-> "pick", fault |-> "none", outcome |-> p.r.outcome,
                      log |-> p.r.w.log, loaded |-> p.r.loaded, state |-> p.r.state,
                      obs |-> p.r.obs, before |-> p.before,
                      inner |-> [pushed |-> p.pushed, removed |-> p.removed]]
          /\ UNCHANGED <<sessions, now, steps, arg, ret, scan_at>>

NextAttach == AttachBegin \/ InnerPick \/ InnerKill \/ InnerBack \/ AttachEnd

SpecAttach == InitAttach /\ [][NextAttach]_vars

---------------------------------------------------------------------------
\* The index resolution of handle_pick_command on its own: the display list
\* and the resolution (lines 371 to 410) for s sessions, p projects and any
\* raw index, also beyond the end of the list.

ResolveInputs ==
    [in_tmux : BOOLEAN, s : 0 .. MaxSessions, p : 0 .. MaxProjects,
     raw : 0 .. (MaxSessions + MaxProjects + MaxOvershoot)]

InputSessions(s) == [i \in 1 .. s |-> SessionInfo(i)]
InputProjects(p) == [i \in 1 .. p |-> ProjectInfo(<<1, 1, i>>, 1, i)]

pick_resolution(in_tmux, sess, projects, selected_index) ==
    LET items == selectable_items(sess, projects)
        offset == separator_offset(in_tmux, sess, projects)
    IN [offset |-> offset,
        display |-> display_strings(items, sess, offset),
        resolved |-> resolve_index(selected_index, items, Len(sess), offset)]

InitResolve ==
    /\ arg \in ResolveInputs
    /\ ret = None
    /\ file = [kind |-> "missing"]
    /\ sessions = {}
    /\ client = None
    /\ now = StartTime
    /\ steps = 0
    /\ last = [cmd |-> "init"]
    /\ pending = None
    /\ scan_at = None

Resolve ==
    /\ ret = None
    /\ ret' = Some(pick_resolution(arg.in_tmux, InputSessions(arg.s),
                                   InputProjects(arg.p), arg.raw))
    /\ UNCHANGED <<file, sessions, client, now, steps, last, arg, pending, scan_at>>

NextResolve == Resolve

SpecResolve == InitResolve /\ [][NextResolve]_vars

---------------------------------------------------------------------------
\* cache_valid on its own, for stamps, clocks and ttls around the default ttl.

CacheInputs ==
    [updated_at : 0 .. MaxStamp,
     now : 0 .. (CACHE_TTL_SECONDS + MaxStamp + 1),
     ttl : (0 .. MaxStamp) \cup {CACHE_TTL_SECONDS}]

InputState(updated_at, ttl) ==
    [DefaultState EXCEPT !.cache.updated_at = updated_at, !.cache.ttl = ttl]

InitCache ==
    /\ arg \in CacheInputs
    /\ ret = None
    /\ file = [kind |-> "missing"]
    /\ sessions = {}
    /\ client = None
    /\ now = arg.now
    /\ steps = 0
    /\ last = [cmd |-> "init"]
    /\ pending = None
    /\ scan_at = None

CacheValid ==
    /\ ret = None
    /\ ret' = Some(cache_valid(InputState(arg.updated_at, arg.ttl), now))
    /\ UNCHANGED <<file, sessions, client, now, steps, last, arg, pending, scan_at>>

NextCache == CacheValid

SpecCache == InitCache /\ [][NextCache]_vars

---------------------------------------------------------------------------
\* State::save, State::load and State::push_history on their own.  The file
\* starts missing, as text that is no JSON, as JSON that is no State, or as a
\* State somebody wrote by hand: with keys the struct does not have, with
\* another version, with a history of up to MAX_HISTORY_SIZE + MaxExcess
\* entries, with a name twice in the history.  A record to save (arg) may be
\* given; then the file starts missing or as garbage.

InputHistories ==
    { << >>, <<1>>, <<1, 2>>, <<2, 1>>, <<1, 1>>, <<2, 1, 2>> }

InputCaches ==
    { [projects |-> ps, updated_at |-> u, ttl |-> t] :
        ps \in { << >>, scan_projects(1), << ProjectInfo(<<2, 1, 1>>, 1, 1) >> },
        u \in {0, StartTime},
        t \in {0, CACHE_TTL_SECONDS} }

InputStates ==
    { [version |-> v, history |-> h, cache |-> c] :
        v \in {STATE_VERSION, STATE_VERSION + 1}, h \in InputHistories, c \in InputCaches }

\* a history of n entries; with dup, its last entry repeats its first
HandHistory(n, dup) ==
    [i \in 1 .. n |-> IF dup /\ i = n /\ n >= 2 THEN 1 ELSE i]

HandState(n, dup) == [DefaultState EXCEPT !.history = HandHistory(n, dup)]

\* the JSON of the default state with one key more
WithExtraKey ==
    LET o == to_json(DefaultState).v
    IN JsonObject([k \in DOMAIN o \cup {"comment"} |->
                      IF k = "comment" THEN JsonString(0) ELSE o[k]])

\* JSON values that are no State: a key is missing, a value has the wrong
\* type, the version is negative, the cache lacks its ttl, the top level is
\* an array
NotAState ==
    LET o == to_json(DefaultState).v
    IN { JsonObject([k \in DOMAIN o \ {"history"} |-> o[k]]),
         JsonObject([o EXCEPT !.history = JsonNumber(3)]),
         JsonObject([o EXCEPT !.history = JsonArray(<< JsonNumber(3) >>)]),
         JsonObject([o EXCEPT !.version = JsonNumber(-1)]),
         JsonObject([o EXCEPT !.version = JsonString(1)]),
         JsonObject([o EXCEPT !.cache =
                        JsonObject([k \in {"projects", "updated_at"} |-> o.cache.v[k]])]),
         JsonArray(<< >>) }

Unparseable ==
    { [kind |-> "garbage"] } \cup { [kind |-> "json", body |-> j] : j \in NotAState }

HandWritten ==
    { save(HandState(n, dup)) :
        n \in 0 .. (MAX_HISTORY_SIZE + MaxExcess), dup \in BOOLEAN }
    \cup { [kind |-> "json", body |-> WithExtraKey],
           save([DefaultState EXCEPT !.version = STATE_VERSION + 1]) }

\* the names pushed: one that is in the hand-written histories, one that is not
PushNames == {1, MAX_HISTORY_SIZE + MaxExcess + 1}

InitState0 ==
    /\ \/ /\ arg = None
          /\ file \in {[kind |-> "missing"]} \cup Unparseable \cup HandWritten
       \/ /\ arg \in { Some(st) : st \in InputStates }
          /\ file \in {[kind |-> "missing"], [kind |-> "garbage"]}
    /\ ret = None
    /\ sessions = {}
    /\ client = None
    /\ now = StartTime
    /\ steps = 0
    /\ last = [cmd |-> "init"]
    /\ pending = None
    /\ scan_at = None

\* state.save() of the given record
SaveState ==
    /\ arg # None
    /\ steps = 0
    /\ ret = None
    /\ file' = save(arg[1])
    /\ steps' = 1
    /\ UNCHANGED <<sessions, client, now, last, arg, ret, pending, scan_at>>

\* State::load()
LoadState ==
    /\ ret = None
    /\ ret' = Some([op |-> "load", state |-> load(file)])
    /\ UNCHANGED <<file, sessions, client, now, steps, last, arg, pending, scan_at>>

\* State::load() and then push_history(name)
PushLoaded ==
    /\ ret = None
    /\ \E name \in PushNames :
           ret' = Some([op |-> "push", name |-> name, loaded |-> load(file),
                        state |-> push_history(load(file), name)])
    /\ UNCHANGED <<file, sessions, client, now, steps, last, arg, pending, scan_at>>

NextState == SaveState \/ LoadState \/ PushLoaded

SpecState == InitState0 /\ [][NextState]_vars

---------------------------------------------------------------------------
\* What the claims read off the record of the last invocation

Invoked == last.cmd \in {"pick", "kill", "back", "refresh"}

\* the calls of one kind the last invocation made, in order
LogCalls(call) == SelectSeq(last.log, LAMBDA e : e.call = call)

\* the attach-or-switch calls of the last invocation
Entered == SelectSeq(last.log, LAMBDA e : e.call \in {"switch", "attach"})

Failed(call) == \E i \in DOMAIN last.log : last.log[i].call = call /\ ~last.log[i].ok

Persisted == load(file)

Range(h) == { h[i] : i \in 1 .. Len(h) }

NoDuplicates(h) == \A i, j \in 1 .. Len(h) : h[i] = h[j] => i = j

\* a stands before b in h
Before(h, a, b) == \E i, j \in 1 .. Len(h) : i < j /\ h[i] = a /\ h[j] = b

SameRelativeOrder(h1, h2, names) ==
    \A a, b \in names : Before(h1, a, b) <=> Before(h2, a, b)

\* The name the last invocation pushed to history, if any: Pick pushes right
\* before its attach-or-switch, Back right after its switch could be run.
PushedName ==
    IF last.cmd = "pick" /\ Entered # << >> THEN Entered[1].target
    ELSE IF last.cmd = "back" /\ LogCalls("switch") # << >> /\ ~Failed("switch")
         THEN last.obs.previous
    ELSE None

\* previousSession() as the data model states it
ExpectedPrevious(h) ==
    IF Len(h) >= 2 THEN Some(h[Len(h) - 1])
    ELSE IF Len(h) = 1 THEN Some(h[1])
    ELSE None

---------------------------------------------------------------------------
\* C1 (SpecResolve): for s sessions, p projects, the separator flag and raw
\* index i, the selection is session i when i < s; nothing (the separator
\* row) when the separator is present and i = s; project i - s - 1 when it is
\* present and i > s; project i - s when it is absent and i >= s; and the
\* invalid-selection error, never an access out of range or a subtraction
\* below zero, when the logical index is >= s + p.
C1_IndexResolution ==
    ret # None =>
        LET i == arg.raw
            s == arg.s
            p == arg.p
            sep == ret[1].offset > 0
            r == ret[1].resolved
            logical == IF sep /\ i > s THEN i - 1 ELSE i
            IsSession(n) == r.kind = "item" /\ r.item = Session(InputSessions(s)[n + 1].name)
            IsProject(n) == r.kind = "item" /\ r.item = Project(InputProjects(p)[n + 1])
        IN /\ r.kind \in {"item", "separator", "invalid"}
           /\ i < s => IsSession(i)
           /\ sep /\ i = s => r.kind = "separator"
           /\ sep /\ i > s /\ i - s - 1 < p => IsProject(i - s - 1)
           /\ ~sep /\ i >= s /\ i - s < p => IsProject(i - s)
           /\ ~(sep /\ i = s) /\ logical >= s + p => r.kind = "invalid"

\* C1: 2 sessions, 3 projects, separator present: raw index 3 is project 0.
C1_Witness ==
    /\ ret # None
    /\ arg.s = 2 /\ arg.p = 3 /\ arg.raw = 3
    /\ ret[1].offset = 1
    /\ ret[1].resolved.kind = "item"
    /\ ret[1].resolved.item = Project(InputProjects(3)[1])

\* C8 (SpecCache): cacheValid() holds exactly when now - updatedAt < ttl;
\* with the default ttl of 3600 a cache stamped at T is valid at T + 3599 and
\* invalid at T + 3600 and T + 3601, and the default record (updatedAt = 0)
\* is invalid at any now >= 3600.
C8_CacheValidity ==
    /\ DefaultState.cache.ttl = 3600
    /\ DefaultState.cache.updated_at = 0
    /\ ret # None =>
        LET valid == ret[1]
            T == arg.updated_at
        IN /\ valid <=> (arg.now - T < arg.ttl)
           /\ arg.ttl = 3600 /\ arg.now = T + 3599 => valid
           /\ arg.ttl = 3600 /\ arg.now \in {T + 3600, T + 3601} => ~valid
           /\ arg.ttl = 3600 /\ T = 0 /\ arg.now >= 3600 => ~valid

\* C8: a cache stamped at T > 0 found valid at T + 3599.
C8_Witness ==
    /\ ret = Some(TRUE)
    /\ arg.ttl = 3600
    /\ arg.updated_at > 0
    /\ arg.now = arg.updated_at + 3599

\* C9 (Spec): the display list of Pick is all session labels, then one
\* separator row if and only if there is at least one session and at least
\* one project and the process is inside tmux, then all project labels in
\* cache order; its length is sessions + projects + (1 if separator, else 0).
C9_DisplayLayout ==
    last.cmd = "pick" =>
        LET o == last.obs
            d == o.display
            s == Len(o.sessions)
            p == Len(o.projects)
            sep == s > 0 /\ p > 0 /\ o.in_tmux
            k == IF sep THEN 1 ELSE 0
        IN /\ Len(d) = s + p + k
           /\ \A i \in 1 .. s : d[i] = << "session: ", o.sessions[i].name >>
           /\ sep => d[s + 1] = << "---" >>
           /\ ~sep => \A i \in 1 .. Len(d) : d[i] # << "---" >>
           /\ o.projects = last.state.cache.projects
           /\ \A j \in 1 .. p :
                 d[s + k + j] = << "project: ", o.projects[j].category, "/", o.projects[j].name >>

\* C9: a Pick inside tmux that showed sessions, the separator row and projects.
C9_Witness ==
    /\ last.cmd = "pick"
    /\ last.obs.in_tmux
    /\ Len(last.obs.sessions) > 1
    /\ Len(last.obs.projects) > 1
    /\ last.obs.display[Len(last.obs.sessions) + 1] = << "---" >>

\* C2 (Spec): from the empty default history on, the history (in memory at
\* the end of every invocation, and persisted) never exceeds 10 entries and
\* never holds a name twice, also after Kill's removals; and the name Pick or
\* Back pushed last is its last entry.
C2_HistoryBounded ==
    /\ Len(Persisted.history) <= 10
    /\ NoDuplicates(Persisted.history)
    /\ Invoked =>
        /\ Len(last.state.history) <= 10
        /\ NoDuplicates(last.state.history)
    /\ Invoked /\ PushedName # None =>
        /\ last.state.history # << >>
        /\ last.state.history[Len(last.state.history)] = PushedName[1]
        /\ last.outcome = "ok" => Persisted.history = last.state.history

\* C2: a name that was not in a history of 10 entries was pushed and saved:
\* the oldest entry is gone and the history has 10 entries again.
C2_Witness ==
    /\ Invoked /\ PushedName # None
    /\ last.outcome = "ok"
    /\ Len(last.loaded.history) = 10
    /\ PushedName[1] \notin Range(last.loaded.history)
    /\ Len(Persisted.history) = 10
    /\ Persisted.history[10] = PushedName[1]
    /\ last.loaded.history[1] \notin Range(Persisted.history)

\* C3 (Spec): previousSession(), as Back and Kill compute it from the loaded
\* history, is the second-to-last entry when there are at least two entries,
\* the only entry when there is one, and none when it is empty; and after
\* pushing A, B, A the history is [B, A] and previousSession() is B.
C3_PreviousSession ==
    /\ last.cmd = "back" => last.obs.previous = ExpectedPrevious(last.loaded.history)
    /\ last.cmd = "kill" /\ "previous" \in DOMAIN last.obs =>
           last.obs.previous = ExpectedPrevious(last.loaded.history)
    /\ Invoked =>
           LET h == last.state.history
           IN /\ Len(h) >= 2 => previous_session(last.state) = Some(h[Len(h) - 1])
              /\ Len(h) = 1 => previous_session(last.state) = Some(h[1])
              /\ Len(h) = 0 => previous_session(last.state) = None
    /\ last.cmd = "pick" =>
           \A A, B \in Range(last.loaded.history) :
               (A # B /\ last.loaded.history = << A, B >> /\ PushedName = Some(A))
               => /\ last.state.history = << B, A >>
                  /\ previous_session(last.state) = Some(B)

\* C3: A was pushed onto the history [A, B], which is now [B, A]
C3_Witness ==
    /\ last.cmd = "pick"
    /\ last.loaded.history = << 1, 2 >>
    /\ PushedName = Some(1)
    /\ last.state.history = << 2, 1 >>
    /\ Persisted.history = << 2, 1 >>

C10_KillFrame ==
    last.cmd = "kill" /\ last.outcome = "ok" /\ "selected" \in DOMAIN last.obs =>
        LET S == last.obs.selected
            h == last.loaded.history
            g == Persisted.history
        IN /\ S \notin Range(g)
           /\ Range(g) = Range(h) \ {S}
           /\ Len(g) = Cardinality(Range(g))
           /\ SameRelativeOrder(h, g, Range(g))
           /\ Persisted.cache = last.loaded.cache
           /\ Persisted.version = last.loaded.version

\* C10: a successful Kill of a session with entries before and after it in
\* the history.
C10_Witness ==
    /\ last.cmd = "kill" /\ last.outcome = "ok" /\ "selected" \in DOMAIN last.obs
    /\ Len(last.loaded.history) >= 4
    /\ last.loaded.history[Len(last.loaded.history) - 2] = last.obs.selected
    /\ Len(Persisted.history) = Len(last.loaded.history) - 1
    /\ Persisted.cache.projects # << >>

\* What Back persists when it re-promotes P in the loaded history h: P last,
\* the same set of names, the other entries in their relative order.
Repromoted(h, g, P) ==
    /\ g # << >>
    /\ g[Len(g)] = P
    /\ Range(g) = Range(h)
    /\ Len(g) = Len(h)
    /\ SameRelativeOrder(h, g, Range(h) \ {P})

\* C5, as claimed (Spec): with an empty history Back issues no command,
\* writes no state and returns success; otherwise it switches the client to
\* P = previousSession() and persists a history in which P is the last
\* entry, the set of names is unchanged and the others keep their order.
C5_Original ==
    last.cmd = "back" =>
        LET h == last.loaded.history
        IN IF h = << >>
           THEN last.log = << >> /\ last.outcome = "ok"
           ELSE /\ LogCalls("switch") # << >>
                /\ LogCalls("switch")[1].target = ExpectedPrevious(h)
                /\ Repromoted(h, Persisted.history, ExpectedPrevious(h)[1])

\* C5, amended (Spec): with an empty history Back issues no command, writes
\* no state and returns success; otherwise it issues one client switch to
\* P = previousSession(); it returns success unless that switch cannot be run
\* (then nothing is written) or the save fails, and when it returns success it
\* has persisted a history in which P is the last entry, the set of names is
\* unchanged and the others keep their order.
C5_Back ==
    last.cmd = "back" =>
        LET h == last.loaded.history
            sw == LogCalls("switch")
        IN IF h = << >>
           THEN last.log = << >> /\ last.outcome = "ok" /\ Persisted = last.loaded
           ELSE /\ Len(sw) = 1
                /\ last.log[1] = sw[1]
                /\ sw[1].target = ExpectedPrevious(h)
                /\ last.outcome = "ok" <=> ~Failed("switch") /\ ~Failed("save")
                /\ Failed("switch") => LogCalls("save") = << >>
                /\ last.outcome = "ok" =>
                       Repromoted(h, Persisted.history, ExpectedPrevious(h)[1])

\* C5: a successful Back on a history of at least three entries.
C5_Witness ==
    /\ last.cmd = "back"
    /\ last.outcome = "ok"
    /\ Len(last.loaded.history) >= 3
    /\ Persisted.history[Len(Persisted.history)]
           = last.loaded.history[Len(last.loaded.history) - 1]
    /\ Persisted.history # last.loaded.history

\* the item a Pick resolved its index to and handed to handle_selection
Selected == last.cmd = "pick" /\ last.obs.resolved.kind = "item"
SelectedItem == last.obs.resolved.item
SelectedName ==
    IF SelectedItem.tag = "Session" THEN SelectedItem.name ELSE SelectedItem.info.name

\* name was pushed and exactly one attach-or-switch to it followed as the
\* last call to tmux
PushedAndEntered(name) ==
    /\ last.state.history # << >>
    /\ last.state.history[Len(last.state.history)] = name
    /\ Len(Entered) = 1
    /\ Entered[1].target = Some(name)
    /\ \A i \in DOMAIN last.log :
           last.log[i].call \in {"has", "create"} =>
               \E j \in DOMAIN last.log : j > i /\ last.log[j] = Entered[1]

\* C6, as claimed (Spec): when Project(info) is chosen, a create-session for
\* info.name rooted at info.path is issued if and only if no live session
\* named info.name exists at that moment; in both cases info.name is then
\* pushed to history and exactly one attach-or-switch to info.name follows.
C6_Original ==
    Selected /\ SelectedItem.tag = "Project" =>
        LET info == SelectedItem.info
            cr == LogCalls("create")
        IN /\ cr # << >> <=> info.name \notin last.before.sessions
           /\ cr # << >> => cr = << [call |-> "create", target |-> << info.name, info.path >>,
                                     ok |-> cr[1].ok] >>
           /\ PushedAndEntered(info.name)

\* C6, amended (Spec): when Project(info) is chosen and the has-session query
\* can be run, a create-session for info.name rooted at info.path is issued
\* if and only if no live session named info.name exists at that moment; if
\* the creation, where needed, can be run too, info.name is then pushed to
\* history and exactly one attach-or-switch to info.name follows.  When the
\* query or the creation cannot be run, Pick ends in an error with nothing
\* created, nothing pushed, nothing saved and no attach-or-switch.
C6_CreateIfAbsent ==
    Selected /\ SelectedItem.tag = "Project" =>
        LET info == SelectedItem.info
            cr == LogCalls("create")
        IN /\ Len(LogCalls("has")) = 1
           /\ ~Failed("has") =>
                 /\ cr # << >> <=> info.name \notin last.before.sessions
                 /\ cr # << >> => cr = << [call |-> "create",
                                           target |-> << info.name, info.path >>,
                                           ok |-> cr[1].ok] >>
           /\ ~Failed("has") /\ ~Failed("create") => PushedAndEntered(info.name)
           /\ Failed("has") \/ Failed("create") =>
                 /\ last.outcome # "ok"
                 /\ Failed("has") => cr = << >>
                 /\ sessions = last.before.sessions
                 /\ last.state.history = last.loaded.history
                 /\ Entered = << >>
                 /\ LogCalls("save") = << >>

\* C6: a project was chosen whose name is that of a live session: nothing
\* was created and the client was switched to that session.
C6_Witness ==
    /\ Selected /\ SelectedItem.tag = "Project"
    /\ SelectedItem.info.name \in last.before.sessions
    /\ LogCalls("create") = << >>
    /\ LogCalls("switch") # << >>
    /\ last.outcome = "ok"
    /\ client = Some(SelectedItem.info.name)
    /\ Persisted.history[Len(Persisted.history)] = SelectedItem.info.name

\* exactly one of switch-client and attach was issued, to name: switch-client
\* inside tmux, attach outside, with name pushed before the call
EnteredOnce(name) ==
    /\ Len(Entered) = 1
    /\ Entered[1].target = Some(name)
    /\ Entered[1].call = "switch" <=> last.before.client # None
    /\ last.obs.in_tmux <=> last.before.client # None
    /\ last.state.history # << >>
    /\ last.state.history[Len(last.state.history)] = name

\* C7, as claimed (Spec): for every selection that reaches handle_selection
\* exactly one of switch-client or attach is issued to the chosen name,
\* switch-client inside tmux and attach otherwise; for Session(name) no
\* create-session is issued; the name is pushed before the call.
C7_Original ==
    Selected =>
        /\ EnteredOnce(SelectedName)
        /\ SelectedItem.tag = "Session" => LogCalls("create") = << >>

\* C7, amended (Spec): for every Session selection, and for every Project
\* selection whose has-session query and create-session can be run, exactly
\* one of switch-client or attach is issued to the chosen name, switch-client
\* inside tmux and attach otherwise, with the name pushed before the call (so
\* also when the call itself cannot be run); for Session(name) no
\* create-session is issued.  For a Project selection whose query or creation
\* cannot be run, neither switch-client nor attach is issued.
C7_AttachOrSwitch ==
    Selected =>
        /\ SelectedItem.tag = "Session" =>
              /\ EnteredOnce(SelectedName)
              /\ LogCalls("create") = << >>
              /\ LogCalls("has") = << >>
        /\ SelectedItem.tag = "Project" =>
              IF Failed("has") \/ Failed("create")
              THEN Entered = << >>
              ELSE EnteredOnce(SelectedName)

\* C7: a session was chosen inside tmux and the one call was a switch-client.
C7_Witness ==
    /\ Selected
    /\ SelectedItem.tag = "Session"
    /\ last.before.client # None
    /\ LogCalls("switch") # << >>
    /\ LogCalls("attach") = << >>
    /\ client = Some(SelectedName)

---------------------------------------------------------------------------
\* the informational conditions of the last invocation
PickerAborted ==
    /\ last.cmd \in {"pick", "kill"}
    /\ "picked" \in DOMAIN last.obs
    /\ last.obs.picked = None

SeparatorPicked ==
    /\ last.cmd = "pick"
    /\ last.obs.picked # None
    /\ last.obs.display[last.obs.picked[1] + 1] = SEPARATOR

NoSessionsToKill ==
    /\ last.cmd = "kill"
    /\ ~Failed("list")
    /\ last.obs.sessions = << >>

NoPreviousSession == last.cmd = "back" /\ last.obs.previous = None

Informational ==
    PickerAborted \/ SeparatorPicked \/ NoSessionsToKill \/ NoPreviousSession

SessionChanging == {"create", "switch", "attach", "kill"}

\* C11 (Spec): when the picker is aborted (Pick or Kill), the separator row
\* is selected in Pick, Kill finds no live sessions or Back finds no previous
\* session, the invocation returns success, issues no create, switch, attach
\* or kill, and leaves the persisted history (and the live sessions and the
\* client) as they were.
C11_CleanNoOps ==
    [][ Informational' =>
            /\ last'.outcome = "ok"
            /\ \A i \in DOMAIN last'.log : last'.log[i].call \notin SessionChanging
            /\ load(file').history = load(file).history
            /\ file' = file
            /\ sessions' = sessions
            /\ client' = client ]_vars

\* C11: the picker of Kill was aborted with live sessions and a history, or
\* the separator row was picked with a history.
C11_Witness ==
    /\ Persisted.history # << >>
    /\ \/ PickerAborted /\ last.cmd = "kill" /\ sessions # {}
       \/ SeparatorPicked

---------------------------------------------------------------------------
\* the current-session query of the last Kill could not be answered
CurrentQueryFailed ==
    /\ last.cmd = "kill"
    /\ "current" \in DOMAIN last.obs
    /\ LogCalls("current") # << >>
    /\ last.obs.current = None

\* C12, as claimed (Spec): whenever the current-session query fails during
\* Kill, the failure propagates and the command ends in the error outcome.
C12_Original == CurrentQueryFailed => last.outcome # "ok"

\* C12: what the code does instead: a Kill whose current-session query failed
\* went on, killed the picked session without a fallback switch, saved and
\* returned success.
C12_Swallowed ==
    /\ CurrentQueryFailed
    /\ last.outcome = "ok"
    /\ LogCalls("kill") # << >>
    /\ LogCalls("switch") = << >>
    /\ LogCalls("save") # << >>

---------------------------------------------------------------------------
\* the State load() returned
Loaded == ret # None /\ ret[1].op = "load"

\* C13 (SpecState): load() always returns a State; from a file written by
\* save() it returns the record that was saved, with the same history order,
\* cache projects, updated_at and ttl; from a missing or unparseable file it
\* returns the default record: current version, empty history, empty project
\* list, updated_at = 0, ttl = 3600.
C13_LoadTotal ==
    Loaded =>
        LET st == ret[1].state
        IN /\ DOMAIN st = {"version", "history", "cache"}
           /\ DOMAIN st.cache = {"projects", "updated_at", "ttl"}
           /\ steps = 1 =>
                 /\ st = arg[1]
                 /\ st.history = arg[1].history
                 /\ st.cache.projects = arg[1].cache.projects
                 /\ st.cache.updated_at = arg[1].cache.updated_at
                 /\ st.cache.ttl = arg[1].cache.ttl
           /\ file.kind = "missing" \/ file \in Unparseable =>
                 /\ st.version = STATE_VERSION
                 /\ st.history = << >>
                 /\ st.cache.projects = << >>
                 /\ st.cache.updated_at = 0
                 /\ st.cache.ttl = 3600

\* C13: a record of another version with a history of two names and scanned
\* projects was saved and loaded.
C13_Witness ==
    /\ Loaded
    /\ steps = 1
    /\ arg[1].version # STATE_VERSION
    /\ Len(arg[1].history) >= 2
    /\ arg[1].cache.projects # << >>
    /\ ret[1].state.history = arg[1].history

---------------------------------------------------------------------------
\* push_history(name) ran on the State load() returned
Pushed == ret # None /\ ret[1].op = "push"

Occurrences(h, name) == Cardinality({ i \in 1 .. Len(h) : h[i] = name })

\* C14, as claimed (SpecState): for every history load() can return, also one
\* with more than 10 entries or with a name twice, pushHistory(name) leaves a
\* history of at most 10 entries that ends with name and holds name once.
C14_Original ==
    Pushed =>
        LET h == ret[1].state.history
        IN /\ Len(h) <= MAX_HISTORY_SIZE
           /\ h # << >>
           /\ h[Len(h)] = ret[1].name
           /\ Occurrences(h, ret[1].name) = 1

\* C14: what the code does instead: from a loaded history of more than 10
\* entries the push removes one entry from the front and leaves more than 10.
C14_StillTooLong ==
    /\ Pushed
    /\ Len(ret[1].loaded.history) > MAX_HISTORY_SIZE
    /\ Len(ret[1].state.history) > MAX_HISTORY_SIZE
    /\ ret[1].state.history[Len(ret[1].state.history)] = ret[1].name
    /\ Occurrences(ret[1].state.history, ret[1].name) = 1

---------------------------------------------------------------------------
\* the cache c1 is the cache c0 rescanned from workspace at time t
Rescanned(c0, c1, workspace, t) ==
    /\ c1.projects = scan_projects(workspace)
    /\ c1.updated_at = t
    /\ c1.ttl = c0.ttl

\* C15 (Spec): ensure_cache_valid, which every Pick runs on the loaded
\* state, leaves projects and updated_at as loaded when the cache is valid
\* (now - updated_at < ttl) and otherwise replaces the project list with the
\* scan of the workspace and sets updated_at = now; Refresh always rescans
\* and stamps; in none of the cases is the history changed (a Pick changes it
\* only by the push of its selection).
C15_EnsureCacheValid ==
    /\ last.cmd = "pick" =>
          LET c0 == last.loaded.cache
              c1 == last.state.cache
              t == last.before.now
          IN /\ IF t - c0.updated_at < c0.ttl
                THEN c1 = c0
                ELSE Rescanned(c0, c1, last.obs.workspace, t)
             /\ last.obs.projects = c1.projects
             /\ last.state.version = last.loaded.version
             /\ IF last.obs.resolved.kind = "item" /\ PushedName # None
                THEN last.state.history = push_history(last.loaded, PushedName[1]).history
                ELSE last.state.history = last.loaded.history
    /\ last.cmd = "refresh" =>
          /\ Rescanned(last.loaded.cache, last.state.cache, last.obs.workspace, last.before.now)
          /\ last.state.history = last.loaded.history
          /\ last.state.version = last.loaded.version
          /\ last.outcome = "ok" => Persisted = last.state

\* C15: a Pick for a workspace other than the scanned one found the cache
\* valid and did not rescan.
C15_Witness ==
    /\ last.cmd = "pick"
    /\ last.before.now - last.loaded.cache.updated_at < last.loaded.cache.ttl
    /\ last.state.cache = last.loaded.cache
    /\ last.loaded.cache.projects # scan_projects(last.obs.workspace)
    /\ last.loaded.history # << >>

---------------------------------------------------------------------------
\* C20 (SpecSession): with all commands run one after the other inside tmux,
\* every call to tmux succeeding, and a history that starts empty, after
\* every completed Pick, Back or Kill a non-empty persisted history ends with
\* the session the client is attached to.
C20_HistoryTracksFocus ==
    last.cmd \in {"pick", "back", "kill"} /\ Persisted.history # << >> =>
        client = Some(Persisted.history[Len(Persisted.history)])

\* C20: the focused session was killed, the client was switched to the
\* previous session, and that one is now the last entry of the history.
C20_Witness ==
    /\ last.cmd = "kill"
    /\ last.obs.picked # None
    /\ last.before.client = Some(last.obs.selected)
    /\ LogCalls("switch") # << >>
    /\ Persisted.history # << >>
    /\ client = Some(Persisted.history[Len(Persisted.history)])
    /\ client = last.obs.previous

---------------------------------------------------------------------------
\* C16, as claimed (SpecSession): once a Pick has rescanned the file system
\* at time T, every later Pick at a time before T + 3600 uses the cached
\* projects without rescanning, whatever the outcome of the first was.
C16_Original ==
    [][ (/\ last'.cmd = "pick"
         /\ scan_at # None
         /\ now - scan_at[1] < CACHE_TTL_SECONDS) => ~last'.obs.scanned ]_vars

\* C16: what the code keeps of the claim: a Pick that follows a Pick which
\* rescanned and saved, less than 3600 seconds later, does not rescan.
C16_AfterSavedScan ==
    [][ (/\ last.cmd = "pick"
         /\ last.obs.scanned
         /\ LogCalls("save") # << >>
         /\ last'.cmd = "pick"
         /\ now - last.before.now < CACHE_TTL_SECONDS) => ~last'.obs.scanned ]_vars

---------------------------------------------------------------------------
\* a successful Back on a history of at least two entries is followed by
\* another Back
BackAfterBack ==
    /\ last.cmd = "back"
    /\ last.outcome = "ok"
    /\ Len(last.loaded.history) >= 2
    /\ last'.cmd = "back"

\* C17, as claimed (SpecSession): for a history of at least two entries,
\* Back twice in a row leaves the same persisted history and the same focused
\* session as Back once.
C17_Original ==
    [][ BackAfterBack =>
            /\ load(file').history = load(file).history
            /\ client' = client ]_vars

\* C17, amended (SpecSession): the push of Back is an idempotent
\* re-insertion (pushing the same name again changes nothing), but Back is
\* not: for a history of at least two entries the second Back in a row
\* re-promotes the other of the two most recent entries, so that Back twice
\* leaves the persisted history and the focused session as they were before
\* the first Back, and not as the first Back left them.
C17_BackTwice ==
    [][ BackAfterBack =>
            /\ push_history(load(file), last.obs.previous[1]) = load(file)
            /\ load(file').history = last.loaded.history
            /\ client' = last.before.client
            /\ load(file').history # load(file).history
            /\ client' # client ]_vars

\* C17: the second of two Backs in a row has put the history <<1, 2>> back.
C17_Witness ==
    /\ last.cmd = "back"
    /\ last.before.cmd = "back"
    /\ last.outcome = "ok"
    /\ last.loaded.history = <<2, 1>>
    /\ Persisted.history = <<1, 2>>
    /\ client = Some(2)

---------------------------------------------------------------------------
\* C19, as claimed (SpecSession): every project a Pick with workspace W
\* offers was discovered by a scan of W, never by a scan of another
\* workspace, even when the cache is within its TTL.
C19_Original ==
    last.cmd = "pick" =>
        \A i \in 1 .. Len(last.obs.projects) :
            /\ last.obs.projects[i] \in Range(scan_projects(last.obs.workspace))
            /\ last.obs.projects[i].path[1] = last.obs.workspace

\* C19: what the code does instead: a Pick for one workspace created a
\* session for a project of another workspace, taken from the cache.
C19_OtherWorkspace ==
    /\ Selected
    /\ SelectedItem.tag = "Project"
    /\ SelectedItem.info.path[1] # last.obs.workspace
    /\ ~last.obs.scanned
    /\ LogCalls("create") # << >>
    /\ last.outcome = "ok"

---------------------------------------------------------------------------
\* the Pick that was blocked in attach-session has saved and returned
OuterPickSaved == last.cmd = "pick" /\ "inner" \in DOMAIN last

\* C18, as claimed (SpecAttach): after a Pick launched outside tmux has
\* blocked in attach and finally saved, the persisted history still reflects
\* the pushes and removals of the Picks, Backs and Kills that ran to
\* completion inside the attached session meanwhile: no update is lost.
C18_Original ==
    OuterPickSaved =>
        /\ last.inner.pushed \subseteq Range(Persisted.history)
        /\ last.inner.removed \cap Range(Persisted.history) = {}

\* C18: what the code does instead: the outer Pick saved the history it had
\* loaded before the attach plus its own push; a name an inner command had
\* pushed is gone and a name an inner Kill had removed is back.
C18_LostUpdate ==
    /\ OuterPickSaved
    /\ Persisted.history = last.state.history
    /\ \E n \in last.inner.pushed : n \notin Range(Persisted.history)
    /\ \E n \in last.inner.removed : n \in Range(Persisted.history)

=============================================================================
